---- MODULE Spec2Model ----
(***************************************************************************)
(* HomeyPrayersWeb: the process entry point (settings/app.js), the         *)
(* application-composition object App (settings/routes/main.router.js),    *)
(* the MainController and the HttpException taxonomy, as a state machine.  *)
(*                                                                         *)
(* Paths (URL paths and file paths) are sequences of segments; path.join   *)
(* is concatenation.  A request is [method, segs, slash], slash telling    *)
(* whether the URL ends with "/".                                          *)
(***************************************************************************)
EXTENDS Integers, Sequences, FiniteSets, TLC

VARIABLES
    cfg,        \* content of config/default.json: [keys, url, port]
    fs,         \* the file system: [files, dirs]
    portInUse,  \* whether another process already holds the configured port
    pc,         \* position of the entry point (module top level and init)
    steps,      \* history: the bootstrap steps executed so far, in order
    controller, \* the MainController instance, or Null
    app,        \* the App instance, or Null
    server,     \* state of the http.Server returned by app.listen()
    sigintHandler, \* whether process.on('SIGINT', ...) has been executed
    closeCbs,   \* callbacks given to server.close() and not yet invoked
    sigints,    \* number of SIGINTs handled so far
    idle,       \* open connections with no request in flight
    busy,       \* open connections with a request in flight
    last,       \* the request dispatched last and the response computed for it
    console,    \* what console.log has printed
    exited,     \* whether the process has terminated
    exitCode    \* its exit code, when it has

\* The vendored Google Maps client (build/web_modules/@google/maps.js).
VARIABLES
    tasks,      \* the Task objects made so far: a Task's id is its index
    ticks,      \* the callbacks given to process.nextTick and not yet run
    timers,     \* setTimeout timers not yet fired: a set of [id, left]
    recentTimes, \* the circular buffer of a ThrottledQueue: [items, current]
    queue,      \* the variable `queue` of a ThrottledQueue: a Task id
    requests,   \* the HTTP requests made so far by makeUrlRequest
    env         \* what the caller of the library holds and has observed

webVars == <<cfg, fs, portInUse, pc, steps, controller, app, server, sigintHandler,
             closeCbs, sigints, idle, busy, last, console, exited, exitCode>>

mapsVars == <<tasks, ticks, timers, recentTimes, queue, requests, env>>

vars == <<webVars, mapsVars>>

\* ------------------------------------------------------------------ bounds
MaxConns == 2
MaxSigints == 2

Null == [null |-> TRUE]

\* The server process loads no Maps client: its variables stay empty.
MapsUnused ==
    /\ tasks = << >>
    /\ ticks = << >>
    /\ timers = {}
    /\ recentTimes = Null
    /\ queue = 0
    /\ requests = << >>
    /\ env = Null

\* ------------------------------------------------------------ configuration
Keys == {"WEBROOT", "STATIC_FILES", "PORT", "MAIN_FILE_URL", "MAIN_FILE_PATH",
         "MAIN_FILE_NAME"}

\* The two shapes of MAIN_FILE_URL: the root "/" and a one-segment path.
MainUrls == {<< >>, <<"settings">>}

\* The module directory of the compiled controller (__dirname).
Dirname == <<"settings", "controllers">>

\* The values of PORT: a port number, and one outside the range of ports.
Ports == {7000, 99999}

\* nconf.get(key): the value of a key of the file; Has tells whether the key
\* is there (nconf.get gives undefined when it is not).
Has(c, k) == k \in c.keys

Get(c, k) ==
    CASE k = "WEBROOT" -> <<"settings">>
      [] k = "STATIC_FILES" -> <<"public">>
      [] k = "MAIN_FILE_URL" -> c.url
      [] k = "MAIN_FILE_PATH" -> <<"views">>
      [] k = "MAIN_FILE_NAME" -> <<"main.html">>
      [] OTHER -> c.port

\* The files config/default.json can be: any subset of the keys; a key that is
\* absent has no value, so one representative value stands for it.
Configs ==
    { c \in [keys : SUBSET Keys, url : MainUrls, port : Ports] :
        /\ ~Has(c, "PORT") => c.port = 7000
        /\ ~Has(c, "MAIN_FILE_URL") => c.url = << >> }

\* path.join of defined arguments.
Join(a, b) == a \o b

\* ---------------------------------------------------------------- file system
StaticDir == <<"settings", "public">>
StaticIndex == <<"settings", "public", "index.html">>
StaticDot == <<"settings", "public", ".env">>
MainFile == <<"settings", "controllers", "views", "main.html">>

FileSystems ==
    { [files |-> f, dirs |-> d] :
        f \in SUBSET {StaticIndex, StaticDot, MainFile}, d \in SUBSET {StaticDir} }

\* A file of the static directory exists only when the directory does.
WellFormedFs(f) ==
    \A p \in f.files : (Len(p) = 3 /\ SubSeq(p, 1, 2) = StaticDir) => StaticDir \in f.dirs

\* ------------------------------------------------------------------ requests
Segments == {"settings", "index.html", ".env"}
DotSegments == {".env"}
Methods == {"GET", "HEAD", "POST"}

\* Paths of up to two segments; the longer ones lie below a main URL.
UrlPaths == {<< >>} \cup {<<a>> : a \in Segments}
                    \cup {Join(u, <<b>>) : u \in MainUrls \ {<< >>}, b \in Segments}

\* The URL "/" always ends with a slash.
Requests ==
    { r \in [method : Methods, segs : UrlPaths, slash : BOOLEAN] :
        r.segs = << >> => r.slash }

IsPrefix(p, s) == Len(p) <= Len(s) /\ SubSeq(s, 1, Len(p)) = p

Strip(p, s) == SubSeq(s, Len(p) + 1, Len(s))

\* ------------------------------------------------------------ HttpException
\* An error object is a record; the field "status" is there only when the
\* error carries one.
HasStatus(e) == "status" \in DOMAIN e

\* new HttpException(status, message): super(message) and nothing else, so
\* the object keeps the message and has no field status.
HttpException(status, message) == [name |-> "Error", message |-> message]

UserWithThatEmailAlreadyExistsException(email) ==
    HttpException(404, <<"user with email ", email, " not found">>)

WrongCredentialsException == HttpException(404, <<"Wrong Password provided">>)

PostNotFoundException(id) == HttpException(404, <<"Post with id ", id, " not found">>)

AuthenticationTokenMissingException ==
    HttpException(404, <<"Authentication Token Missing">>)

WrongAuthenticationTokenException ==
    HttpException(404, <<"Authentication Token Missing">>)

\* The constructor calls of the taxonomy: [class, args].
Statuses == {400, 404, 500}
Messages == {<<"Not Found">>, <<"Bad Request">>}
Emails == {"a@b.c", "d@e.f"}
PostIds == {"1", "2"}

Thrown ==
    {[class |-> "HttpException", args |-> <<st, m>>] : st \in Statuses, m \in Messages}
    \cup {[class |-> "UserWithThatEmailAlreadyExistsException", args |-> <<e>>] : e \in Emails}
    \cup {[class |-> "PostNotFoundException", args |-> <<i>>] : i \in PostIds}
    \cup {[class |-> k, args |-> << >>] :
            k \in {"WrongCredentialsException", "AuthenticationTokenMissingException",
                   "WrongAuthenticationTokenException"}}

\* The object a constructor call makes.
New(x) ==
    CASE x.class = "HttpException" -> HttpException(x.args[1], x.args[2])
      [] x.class = "UserWithThatEmailAlreadyExistsException" ->
            UserWithThatEmailAlreadyExistsException(x.args[1])
      [] x.class = "WrongCredentialsException" -> WrongCredentialsException
      [] x.class = "PostNotFoundException" -> PostNotFoundException(x.args[1])
      [] x.class = "AuthenticationTokenMissingException" ->
            AuthenticationTokenMissingException
      [] OTHER -> WrongAuthenticationTokenException

\* The error sendFile hands to next() when the file cannot be read.
SendFileError == [status |-> 404, message |-> <<"ENOENT">>]

\* ------------------------------------------------------------- MainController
ControllerThrows(c) ==
    \/ ~Has(c, "MAIN_FILE_PATH")
    \/ ~Has(c, "MAIN_FILE_NAME")
    \/ ~Has(c, "MAIN_FILE_URL")

\* initializeRoutes: this.router.get(this.path, this.mainPageRoute)
InitializeRoutes(path) ==
    << [method |-> "GET", path |-> path, handler |-> "mainPageRoute"] >>

\* new MainController()
MainControllerNew(c) ==
    [ path |-> Get(c, "MAIN_FILE_URL"),
      filePath |-> Join(Dirname, Join(Get(c, "MAIN_FILE_PATH"), Get(c, "MAIN_FILE_NAME"))),
      rootPath |-> Get(c, "WEBROOT"),
      router |-> InitializeRoutes(Get(c, "MAIN_FILE_URL")) ]

\* mainPageRoute: response.sendFile(this._filePath, ...).  The outcome is a
\* response, or next(err) when the file cannot be read.
MainPageRoute(filePath, f) ==
    IF filePath \in f.files
    THEN [kind |-> "response",
          res |-> [status |-> 200, body |-> filePath, via |-> "mainPageRoute",
                   cause |-> Null]]
    ELSE [kind |-> "next", err |-> SendFileError]

\* ------------------------------------------------------------------------ App
\* express.static(folderPath) is called without the options object declared
\* above it, so serve-static runs with its defaults.
StaticDefaults == [dotfiles |-> "ignore", index |-> TRUE, redirect |-> TRUE]

AppThrows(c) ==
    \/ ~Has(c, "WEBROOT")
    \/ ~Has(c, "STATIC_FILES")
    \/ ~Has(c, "MAIN_FILE_URL")

\* Mutant: the static folder is left out of folderPath.
InitializeMiddlewaresWebrootOnly(chain, c) ==
    Append(chain, [kind |-> "static",
                   mount |-> Get(c, "MAIN_FILE_URL"),
                   root |-> Get(c, "WEBROOT"),
                   opts |-> StaticDefaults])

\* initializeMiddlewares: this.app.use(MAIN_FILE_URL, express.static(folderPath))
InitializeMiddlewares(chain, c) ==
    Append(chain, [kind |-> "static",
                   mount |-> Get(c, "MAIN_FILE_URL"),
                   root |-> Join(Get(c, "WEBROOT"), Get(c, "STATIC_FILES")),
                   opts |-> StaticDefaults])

\* initializeControllers: controllers.forEach(c => this.app.use('/', c.router))
RECURSIVE InitializeControllers(_, _)
InitializeControllers(chain, controllers) ==
    IF controllers = << >> THEN chain
    ELSE InitializeControllers(
             Append(chain, [kind |-> "router", mount |-> << >>,
                            routes |-> Head(controllers).router,
                            filePath |-> Head(controllers).filePath]),
             Tail(controllers))

\* Mutant: the error middleware is not attached.
InitializeErrorMiddlewareSkipped(chain) == chain

\* initializeErrorMiddleware: this.app.use(this._excpetionMiddleware.errorMiddleware)
InitializeErrorMiddleware(chain) == Append(chain, [kind |-> "error"])

\* Mutant: the error middleware is attached before the controllers.
AppNewErrorFirst(c, controllers) ==
    [ port |-> IF Has(c, "PORT") THEN Get(c, "PORT") ELSE -1,
      mainFolder |-> Get(c, "WEBROOT"),
      staticFolder |-> Get(c, "STATIC_FILES"),
      chain |-> InitializeControllers(
                    InitializeErrorMiddleware(InitializeMiddlewares(<< >>, c)),
                    controllers) ]

\* new App(controllers): the calls of the constructor, in its order
\* (initializeDatabase and initializeAuthenticators do nothing).  A PORT that
\* is not configured (undefined) is written -1.
AppNew(c, controllers) ==
    [ port |-> IF Has(c, "PORT") THEN Get(c, "PORT") ELSE -1,
      mainFolder |-> Get(c, "WEBROOT"),
      staticFolder |-> Get(c, "STATIC_FILES"),
      chain |-> InitializeErrorMiddleware(
                    InitializeControllers(
                        InitializeMiddlewares(<< >>, c), controllers)) ]

\* ----------------------------------------------------------- request dispatch
Next404 == [kind |-> "next", err |-> Null]

\* The static middleware on a request whose path below the mount is rel.
ServeStatic(layer, req, rel, f) ==
    LET target == Join(layer.root, rel)
        index == Append(target, "index.html")
        file(p) == [kind |-> "response",
                    res |-> [status |-> 200, body |-> p, via |-> "static",
                             cause |-> Null]]
    IN  IF req.method \notin {"GET", "HEAD"} THEN Next404
        ELSE IF layer.opts.dotfiles = "ignore"
                /\ \E i \in 1..Len(rel) : rel[i] \in DotSegments THEN Next404
        ELSE IF req.slash
        THEN IF layer.opts.index /\ index \in f.files THEN file(index) ELSE Next404
        ELSE IF target \in f.files THEN file(target)
        ELSE IF target \in f.dirs /\ layer.opts.redirect
        THEN [kind |-> "response",
              res |-> [status |-> 301, body |-> Append(req.segs, "/"), via |-> "static",
                       cause |-> Null]]
        ELSE Next404

\* Mutant: a route answers every method.
RouteMatchesAnyMethod(route, req) == route.path = req.segs

\* A controller's router: the first route whose method and path match.  A
\* HEAD request is dispatched to a GET route (the router has no HEAD route);
\* the match is not strict about a trailing slash.
RouteMatches(route, req) ==
    /\ route.method = (IF req.method = "HEAD" THEN "GET" ELSE req.method)
    /\ route.path = req.segs

RouterHandle(layer, req, f) ==
    IF \E i \in 1..Len(layer.routes) : RouteMatches(layer.routes[i], req)
    THEN MainPageRoute(layer.filePath, f)
    ELSE Next404

\* The catch-all error middleware: the response carries the status and the
\* message of the error (cause records the error answered).
ErrorMiddleware(err) ==
    [status |-> IF HasStatus(err) THEN err.status ELSE 500,
     body |-> err.message, via |-> "errorMiddleware", cause |-> err]

\* What Express answers when the chain is exhausted.
FinalHandler(err) ==
    IF err = Null
    THEN [status |-> 404, body |-> <<"Cannot">>, via |-> "finalhandler", cause |-> Null]
    ELSE [status |-> IF HasStatus(err) THEN err.status ELSE 500,
          body |-> err.message, via |-> "finalhandler", cause |-> err]

\* One layer on a request: error layers see only errors, the others only
\* requests without an error, and a mounted layer only the paths below its mount.
LayerHandle(layer, req, err, f) ==
    IF layer.kind = "error"
    THEN IF err = Null THEN Next404
         ELSE [kind |-> "response", res |-> ErrorMiddleware(err)]
    ELSE IF err # Null \/ ~IsPrefix(layer.mount, req.segs)
    THEN [kind |-> "next", err |-> err]
    ELSE IF layer.kind = "static"
    THEN ServeStatic(layer, req, Strip(layer.mount, req.segs), f)
    ELSE RouterHandle(layer, req, f)

RECURSIVE Dispatch(_, _, _, _, _)
Dispatch(chain, i, req, err, f) ==
    IF i > Len(chain) THEN FinalHandler(err)
    ELSE LET out == LayerHandle(chain[i], req, err, f)
         IN  IF out.kind = "response" THEN out.res
             ELSE Dispatch(chain, i + 1, req, out.err, f)

\* The response of the application to a request.
HandleRequest(a, req, f) == Dispatch(a.chain, 1, req, Null, f)

\* The position in the chain of the first controller's router.
RouterIndex(chain) ==
    CHOOSE i \in 1..Len(chain) :
        chain[i].kind = "router" /\ \A j \in 1..(i - 1) : chain[j].kind # "router"

\* The response to a request whose route handler throws err: Express catches
\* the exception and hands it to the layers after the router.
HandleThrow(a, req, err, f) == Dispatch(a.chain, RouterIndex(a.chain) + 1, req, err, f)

\* ------------------------------------------------------------------ the process
Init ==
    /\ MapsUnused
    /\ cfg \in Configs
    /\ fs \in {f \in FileSystems : WellFormedFs(f)}
    /\ portInUse \in BOOLEAN
    /\ pc = "load"
    /\ steps = << >>
    /\ controller = Null
    /\ app = Null
    /\ server = "none"
    /\ sigintHandler = FALSE
    /\ closeCbs = 0
    /\ sigints = 0
    /\ idle = 0
    /\ busy = 0
    /\ last = Null
    /\ console = {}
    /\ exited = FALSE
    /\ exitCode = 0

\* nconf.file('config/default.json'), at the top of the entry module.
LoadConfig ==
    /\ pc = "load" /\ ~exited
    /\ pc' = "newController"
    /\ steps' = Append(steps, "config")
    /\ UNCHANGED mapsVars
    /\ UNCHANGED <<cfg, fs, portInUse, controller, app, server, sigintHandler,
                   closeCbs, sigints, idle, busy, last, console, exited, exitCode>>

\* init, first half of line `app = new App([new mainController()])`: the
\* argument is evaluated first.  A throw goes to the catch clause.
NewController ==
    /\ pc = "newController" /\ ~exited
    /\ IF ControllerThrows(cfg)
       THEN /\ pc' = "catch"
            /\ UNCHANGED <<controller, steps>>
       ELSE /\ controller' = MainControllerNew(cfg)
            /\ steps' = Append(steps, "controller")
            /\ pc' = "newApp"
    /\ UNCHANGED mapsVars
    /\ UNCHANGED <<cfg, fs, portInUse, app, server, sigintHandler, closeCbs,
                   sigints, idle, busy, last, console, exited, exitCode>>

\* init: new App([controller]).
NewApp ==
    /\ pc = "newApp" /\ ~exited
    /\ IF AppThrows(cfg)
       THEN /\ pc' = "catch"
            /\ UNCHANGED <<app, steps>>
       ELSE /\ app' = AppNew(cfg, <<controller>>)
            /\ steps' = Append(steps, "app")
            /\ pc' = "listen"
    /\ UNCHANGED mapsVars
    /\ UNCHANGED <<cfg, fs, portInUse, controller, server, sigintHandler, closeCbs,
                   sigints, idle, busy, last, console, exited, exitCode>>

\* listen(port) throws at once when the port is outside 0..65535.
ListenThrows(a) == a.port > 65535

\* Whether binding the port fails: a configured port another process holds
\* (listen(undefined) takes any free port).
BindFails(a) == a.port >= 0 /\ portInUse

\* App.listen: this.app.listen(this._port, ...) returns the server at once; a
\* failure to bind is reported later, as an 'error' event of the server.
Listen ==
    /\ pc = "listen" /\ ~exited
    /\ IF ListenThrows(app)
       THEN /\ pc' = "catch"
            /\ UNCHANGED <<server, steps>>
       ELSE /\ server' = IF BindFails(app) THEN "failed" ELSE "listening"
            /\ steps' = Append(steps, "listen")
            /\ pc' = "onSigint"
    /\ UNCHANGED mapsVars
    /\ UNCHANGED <<cfg, fs, portInUse, controller, app, sigintHandler, closeCbs,
                   sigints, idle, busy, last, console, exited, exitCode>>

\* init: process.on('SIGINT', ...).
RegisterSigint ==
    /\ pc = "onSigint" /\ ~exited
    /\ sigintHandler' = TRUE
    /\ steps' = Append(steps, "sigint")
    /\ pc' = "done"
    /\ UNCHANGED mapsVars
    /\ UNCHANGED <<cfg, fs, portInUse, controller, app, server, closeCbs, sigints,
                   idle, busy, last, console, exited, exitCode>>

\* Mutant: the SIGINT handler is registered on the error path too.
CatchAndRegister ==
    /\ pc = "catch" /\ ~exited
    /\ console' = console \cup {"error"}
    /\ sigintHandler' = TRUE
    /\ pc' = "done"
    /\ UNCHANGED mapsVars
    /\ UNCHANGED <<cfg, fs, portInUse, steps, controller, app, server,
                   closeCbs, sigints, idle, busy, last, exited, exitCode>>

\* init: catch (err) { console.log(err) }.
Catch ==
    /\ pc = "catch" /\ ~exited
    /\ console' = console \cup {"error"}
    /\ pc' = "done"
    /\ UNCHANGED mapsVars
    /\ UNCHANGED <<cfg, fs, portInUse, steps, controller, app, server, sigintHandler,
                   closeCbs, sigints, idle, busy, last, exited, exitCode>>

\* The 'error' event of a server that could not bind, emitted on the next
\* tick after init returned.  The server has no 'error' listener, so the
\* event is an uncaught exception and ends the process with code 1.
BindError ==
    /\ pc = "done" /\ ~exited /\ server = "failed"
    /\ exited' = TRUE
    /\ exitCode' = 1
    /\ UNCHANGED mapsVars
    /\ UNCHANGED <<cfg, fs, portInUse, pc, steps, controller, app, server,
                   sigintHandler, closeCbs, sigints, idle, busy, last, console>>

\* init returned and nothing keeps the event loop alive: the process ends.
ProcessEnds ==
    /\ pc = "done" /\ ~exited /\ server = "none"
    /\ exited' = TRUE
    /\ exitCode' = 0
    /\ UNCHANGED mapsVars
    /\ UNCHANGED <<cfg, fs, portInUse, pc, steps, controller, app, server,
                   sigintHandler, closeCbs, sigints, idle, busy, last, console>>

\* The listener accepts a connection.
Connect ==
    /\ pc = "done" /\ ~exited /\ server = "listening"
    /\ idle + busy < MaxConns
    /\ idle' = idle + 1
    /\ UNCHANGED mapsVars
    /\ UNCHANGED <<cfg, fs, portInUse, pc, steps, controller, app, server, sigintHandler,
                   closeCbs, sigints, busy, last, console, exited, exitCode>>

\* Mutant: handling a request removes the first layer of the chain.
RequestDropsLayer(req) ==
    /\ pc = "done" /\ ~exited /\ server \in {"listening", "closing"}
    /\ idle > 0
    /\ idle' = idle - 1
    /\ busy' = busy + 1
    /\ last' = [req |-> req, res |-> HandleRequest(app, req, fs)]
    /\ app' = [app EXCEPT !.chain = Tail(app.chain)]
    /\ UNCHANGED mapsVars
    /\ UNCHANGED <<cfg, fs, portInUse, pc, steps, controller, server,
                   sigintHandler, closeCbs, sigints, console, exited, exitCode>>

\* A request arrives on an open connection and runs through the chain.
Request(req) ==
    /\ pc = "done" /\ ~exited /\ server \in {"listening", "closing"}
    /\ idle > 0
    /\ idle' = idle - 1
    /\ busy' = busy + 1
    /\ last' = [req |-> req, res |-> HandleRequest(app, req, fs)]
    /\ UNCHANGED mapsVars
    /\ UNCHANGED <<cfg, fs, portInUse, pc, steps, controller, app, server,
                   sigintHandler, closeCbs, sigints, console, exited, exitCode>>

\* The response of a request in flight is completely sent; the connection
\* is kept alive.
Respond ==
    /\ ~exited /\ busy > 0
    /\ busy' = busy - 1
    /\ idle' = idle + 1
    /\ UNCHANGED mapsVars
    /\ UNCHANGED <<cfg, fs, portInUse, pc, steps, controller, app, server,
                   sigintHandler, closeCbs, sigints, last, console, exited, exitCode>>

\* A connection with no request in flight ends.
ConnectionEnd ==
    /\ ~exited /\ idle > 0
    /\ idle' = idle - 1
    /\ UNCHANGED mapsVars
    /\ UNCHANGED <<cfg, fs, portInUse, pc, steps, controller, app, server, sigintHandler,
                   closeCbs, sigints, busy, last, console, exited, exitCode>>

\* A request arrives whose route handler throws an exception of the taxonomy,
\* made by a constructor call x.
HandlerThrows(req) ==
    /\ pc = "done" /\ ~exited /\ server \in {"listening", "closing"}
    /\ idle > 0
    /\ LET r == HandleRequest(app, req, fs)
       IN  r.via = "mainPageRoute" \/ r.cause = SendFileError
    /\ idle' = idle - 1
    /\ busy' = busy + 1
    /\ \E x \in Thrown :
          last' = [req |-> req, res |-> HandleThrow(app, req, New(x), fs), thrown |-> x]
    /\ UNCHANGED mapsVars
    /\ UNCHANGED <<cfg, fs, portInUse, pc, steps, controller, app, server,
                   sigintHandler, closeCbs, sigints, console, exited, exitCode>>

\* Mutant: the handler exits without closing the listener first.
SigintExitsAtOnce ==
    /\ pc = "done" /\ ~exited /\ sigintHandler
    /\ server \in {"listening", "closing"}
    /\ sigints < MaxSigints
    /\ sigints' = sigints + 1
    /\ exited' = TRUE
    /\ exitCode' = 0
    /\ UNCHANGED mapsVars
    /\ UNCHANGED <<cfg, fs, portInUse, pc, steps, controller, app, server,
                   sigintHandler, closeCbs, idle, busy, last, console>>

\* Mutant: the handler does not close the listener.
SigintWithoutClose ==
    /\ pc = "done" /\ ~exited /\ sigintHandler
    /\ server \in {"listening", "closing"}
    /\ sigints < MaxSigints
    /\ sigints' = sigints + 1
    /\ UNCHANGED mapsVars
    /\ UNCHANGED <<cfg, fs, portInUse, pc, steps, controller, app, server,
                   sigintHandler, closeCbs, idle, busy, last, console, exited, exitCode>>

\* The SIGINT handler: server.close(callback).  The listener stops accepting
\* and the callback waits for the server's 'close' event.
Sigint ==
    /\ pc = "done" /\ ~exited /\ sigintHandler
    /\ server \in {"listening", "closing"}
    /\ sigints < MaxSigints
    /\ sigints' = sigints + 1
    /\ server' = "closing"
    /\ closeCbs' = closeCbs + 1
    /\ UNCHANGED mapsVars
    /\ UNCHANGED <<cfg, fs, portInUse, pc, steps, controller, app, sigintHandler,
                   idle, busy, last, console, exited, exitCode>>

\* Mutant: the close callback exits with code 1.
CloseCompleteExitOne ==
    /\ ~exited /\ server = "closing" /\ closeCbs > 0
    /\ idle + busy = 0
    /\ server' = "closed"
    /\ console' = console \cup {"Process terminated"}
    /\ closeCbs' = closeCbs - 1
    /\ exited' = TRUE
    /\ exitCode' = 1
    /\ UNCHANGED mapsVars
    /\ UNCHANGED <<cfg, fs, portInUse, pc, steps, controller, app, sigintHandler,
                   sigints, idle, busy, last>>

\* The 'close' event of the server, once the listener is closed and no
\* connection is left: the first callback logs and calls process.exit(0).
CloseComplete ==
    /\ ~exited /\ server = "closing" /\ closeCbs > 0
    /\ idle + busy = 0
    /\ server' = "closed"
    /\ console' = console \cup {"Process terminated"}
    /\ closeCbs' = closeCbs - 1
    /\ exited' = TRUE
    /\ exitCode' = 0
    /\ UNCHANGED mapsVars
    /\ UNCHANGED <<cfg, fs, portInUse, pc, steps, controller, app, sigintHandler,
                   sigints, idle, busy, last>>

Next ==
    \/ LoadConfig
    \/ NewController
    \/ NewApp
    \/ Listen
    \/ RegisterSigint
    \/ Catch
    \/ BindError
    \/ ProcessEnds
    \/ Connect
    \/ \E req \in Requests : Request(req)
    \/ Respond
    \/ ConnectionEnd
    \/ Sigint
    \/ CloseComplete

Spec == Init /\ [][Next]_vars

\* The event loop runs the callbacks of a 'close' event that is due.
LiveSpec == Spec /\ WF_vars(CloseComplete)

\* ---------------------------------------------- a route handler that throws
\* The order of the bootstrap steps.
BootstrapOrder == <<"config", "controller", "app", "listen", "sigint">>

\* A process that is serving: the state Spec reaches from a complete
\* configuration with a free port.
ExcInit ==
    /\ MapsUnused
    /\ cfg \in {c \in Configs : c.keys = Keys /\ c.port = 7000}
    /\ fs \in {f \in FileSystems : WellFormedFs(f)}
    /\ portInUse = FALSE
    /\ pc = "done"
    /\ steps = BootstrapOrder
    /\ controller = MainControllerNew(cfg)
    /\ app = AppNew(cfg, <<MainControllerNew(cfg)>>)
    /\ server = "listening"
    /\ sigintHandler = TRUE
    /\ closeCbs = 0
    /\ sigints = 0
    /\ idle = 0
    /\ busy = 0
    /\ last = Null
    /\ console = {}
    /\ exited = FALSE
    /\ exitCode = 0

ExcNext ==
    \/ Connect
    \/ \E req \in Requests : Request(req)
    \/ \E req \in Requests : HandlerThrows(req)
    \/ Respond
    \/ ConnectionEnd

ExcSpec == ExcInit /\ [][ExcNext]_vars

\* ===================================================================== claims
\* The request dispatched last, read against the configuration.
LastGet == last # Null /\ last.req.method = "GET"

MainUrl == Get(cfg, "MAIN_FILE_URL")

StaticFolder == Join(Get(cfg, "WEBROOT"), Get(cfg, "STATIC_FILES"))

\* The file of the static directory a request path names.
StaticTarget(req) == Join(StaticFolder, Strip(MainUrl, req.segs))

HasDotSegment(req) == \E i \in 1..Len(req.segs) : req.segs[i] \in DotSegments

StaticFileExists(req) == ~req.slash /\ StaticTarget(req) \in fs.files

\* C1: every GET request whose path is MAIN_FILE_URL is answered 200 with the
\* content of the configured main file (here: when that file exists), whatever
\* files the static directory mounted on the same path holds.
C1_MainRouteServesMainFile ==
    (LastGet /\ last.req.segs = MainUrl /\ controller.filePath \in fs.files)
        => (last.res.status = 200 /\ last.res.body = controller.filePath)

C3_SigintExitsZero ==
    /\ ([]<>(idle + busy = 0)) => ((sigints > 0) ~> (exited /\ exitCode = 0))
    /\ []((sigints > 0 /\ exited) => exitCode = 0)

\* The process exited with code 0 after a SIGINT.
C3_Witness == sigints > 0 /\ exited /\ exitCode = 0 /\ server = "closed"

\* C4: after SIGINT the process has exited only through the listener's close
\* completion, with no connection open, however many SIGINTs were delivered.
C4_ExitOnlyAfterDrain ==
    (sigints > 0 /\ exited) => (idle + busy = 0 /\ server = "closed")

\* A second SIGINT was handled while a request was still in flight.
C4_Witness == sigints >= 2 /\ busy > 0 /\ ~exited

\* C5 as stated: after SIGINT has been handled no connection is accepted and
\* no request starts being served.
C5_NothingServedAfterSigint ==
    [][sigints > 0 => (idle' + busy' <= idle + busy /\ busy' <= busy)]_vars

\* C5 amended: after SIGINT has been handled no connection is accepted (a
\* request can still be served on a connection that was open at the signal);
\* a request in flight leaves only by its response being completed, and the
\* process exits with no request in flight.
C5_NoNewConnectionAfterSigint ==
    [][sigints > 0 =>
          /\ idle' + busy' <= idle + busy
          /\ busy' < busy => (busy' = busy - 1 /\ idle' = idle + 1)
          /\ exited' => busy' = 0]_vars

\* After a SIGINT a request is in flight next to an idle connection.
C5_Witness == sigints > 0 /\ busy > 0 /\ idle > 0 /\ server = "closing"

\* C6: an error raised in a route handler (thrown, or handed to next by
\* sendFile) is answered by the error middleware with an HTTP error status,
\* and the process goes on listening.
C6_HandlerErrorsAnswered ==
    (last # Null /\ last.res.cause # Null)
        => /\ last.res.via = "errorMiddleware"
           /\ last.res.status \in 400..599
           /\ ~exited /\ server = "listening"

\* A thrown exception was answered by the error middleware.
C6_Witness ==
    /\ last # Null /\ "thrown" \in DOMAIN last
    /\ last.res.via = "errorMiddleware" /\ last.res.cause = New(last.thrown)

C8_BootstrapErrorsSwallowed ==
    (pc = "done" /\ (steps # BootstrapOrder \/ server = "failed"))
        => ("error" \in console /\ ~(exited /\ exitCode # 0))

\* The status and the message a constructor call of the taxonomy is given.
ConstructedStatus(x) == IF x.class = "HttpException" THEN x.args[1] ELSE 404

\* C9: an exception of the taxonomy thrown while handling a request is
\* answered with the status it was constructed with and with its message.
C9_ExceptionStatusAnswered ==
    (last # Null /\ "thrown" \in DOMAIN last)
        => /\ last.res.status = ConstructedStatus(last.thrown)
           /\ last.res.body = New(last.thrown).message

\* C10: the bootstrap steps happen in the order config, controller, App,
\* listen, SIGINT registration, and the handler is registered only when every
\* step before it returned without throwing.
C10_BootstrapOrder ==
    /\ IsPrefix(steps, BootstrapOrder)
    /\ sigintHandler => (steps = BootstrapOrder /\ "error" \notin console)

\* The handler was registered at the end of a bootstrap without error.
C10_Witness == sigintHandler /\ pc = "done" /\ steps = BootstrapOrder

\* C11: handling a request changes nothing of the App, the controller, the
\* configuration or the files, and the response to a request is the one the
\* freshly constructed App gives to it, whatever was handled before.
C11_RequestsChangeNoState ==
    last # Null =>
        /\ controller = MainControllerNew(cfg)
        /\ app = AppNew(cfg, <<MainControllerNew(cfg)>>)
        /\ last.res = HandleRequest(AppNew(cfg, <<MainControllerNew(cfg)>>), last.req, fs)

\* A request was handled while another one was in flight.
C11_Witness == last # Null /\ busy >= 2

\* Whether a response comes from the main-page handler: its file, or the
\* error of its sendFile.
AnsweredByMainPage(res) == res.via = "mainPageRoute" \/ res.cause = SendFileError

World ==
    [tasks |-> tasks, ticks |-> ticks, timers |-> timers,
     recentTimes |-> recentTimes, queue |-> queue, requests |-> requests,
     env |-> env, ret |-> 0, thrown |-> Null]

SetWorld(w) ==
    /\ tasks' = w.tasks
    /\ ticks' = w.ticks
    /\ timers' = w.timers
    /\ recentTimes' = w.recentTimes
    /\ queue' = w.queue
    /\ requests' = w.requests
    /\ env' = w.env

Fn(name, t) == [f |-> name, t |-> t]
Noop == Fn("noop", 0)

\* The error of a cancelled task, and the Error setListener throws.
Cancelled == [error |-> "cancelled"]
ListenerError == [error |-> "thenDo/finally called more than once"]

\* A callback waiting in the nextTick queue, with the arguments its
\* closure holds.
TickOf(fn, err, result) == [fn |-> fn, err |-> err, result |-> result]

\* The variables of a Task.start call before doSomething has run.
NewTask ==
    [finished |-> Null, onFinish |-> Null, cleaners |-> << >>, abort |-> Null,
     cancelled |-> FALSE, currentTask |-> 0, onResolve |-> Null, onReject |-> Null,
     members |-> << >>]

Reverse(s) == [i \in 1..Len(s) |-> s[Len(s) + 1 - i]]

\* The listener of a task is always the callback compose gives to
\* whenFirstTaskFinishes: it forgets the current task and defers the rest.
\* A caller that watches (env.watch) has the call noted in env.listened.
WhenFirstTaskFinishes(w, fn, err, result) ==
    [w EXCEPT !.tasks[fn.t].currentTask = 0,
              !.ticks = Append(@, TickOf(Fn("composeTick", fn.t), err, result)),
              !.env.listened = IF w.env.watch
                               THEN Append(@, [by |-> fn.t, err |-> err, result |-> result])
                               ELSE @]

RECURSIVE Finish(_, _, _, _)
RECURSIVE CallAbort(_, _)
RECURSIVE CancelEach(_, _)

\* Mutant: finish without the test of `finished`.
FinishAgain(w, t, err, result) ==
    LET task == w.tasks[t]
        w1 == [w EXCEPT !.tasks[t].finished = [err |-> err, result |-> result]]
        w2 == IF task.onFinish # Null /\ task.onFinish # Noop
              THEN [WhenFirstTaskFinishes(w1, task.onFinish, err, result)
                        EXCEPT !.tasks[t].onFinish = Noop]
              ELSE w1
    IN  [w2 EXCEPT !.tasks[t].abort = Null]

\* finish(err, result) of Task.start: the first call fixes the outcome,
\* calls the listener, runs the cleaners (last pushed first; each defers its
\* cleanup to the next tick) and, when the task is cancelled, its abort.
Finish(w, t, err, result) ==
    IF w.tasks[t].finished # Null THEN w
    ELSE LET task == w.tasks[t]
             w1 == [w EXCEPT !.tasks[t].finished = [err |-> err, result |-> result]]
             w2 == IF task.onFinish # Null /\ task.onFinish # Noop
                   THEN [WhenFirstTaskFinishes(w1, task.onFinish, err, result)
                             EXCEPT !.tasks[t].onFinish = Noop]
                   ELSE w1
             w3 == [w2 EXCEPT
                      !.ticks = @ \o [i \in 1..Len(task.cleaners) |->
                                        TickOf(Reverse(task.cleaners)[i], Null, Null)],
                      !.tasks[t].cleaners = << >>]
             w4 == IF err = Cancelled /\ task.abort # Null
                   THEN CallAbort(w3, task.abort)
                   ELSE w3
         IN  [w4 EXCEPT !.tasks[t].abort = Null]

\* me.cancel
Cancel(w, t) == Finish(w, t, Cancelled, Null)

\* cancelAll of Task.race: tasks.forEach(task => task.cancel())
CancelEach(w, ts) ==
    IF ts = << >> THEN w ELSE CancelEach(Cancel(w, Head(ts)), Tail(ts))

\* The function a doSomething returned, called when its task is cancelled.
CallAbort(w, fn) ==
    CASE fn.f = "cancelCompositeTask" ->
            LET w1 == [w EXCEPT !.tasks[fn.t].cancelled = TRUE]
            IN  IF w.tasks[fn.t].currentTask # 0
                THEN Cancel(w1, w.tasks[fn.t].currentTask)
                ELSE w1
      [] fn.f = "clearTimeout" ->
            [w EXCEPT !.timers = {x \in @ : x.id # fn.t}]
      [] fn.f = "cancelAll" -> CancelEach(w, w.tasks[fn.t].members)
      [] fn.f = "abort" -> [w EXCEPT !.requests[fn.t].aborted = TRUE]
      [] OTHER -> w

\* Task.start, for a doSomething that neither finishes the task nor throws
\* before it returns: the new task, with the function doSomething returned.
Start(w, abort) ==
    [w EXCEPT !.tasks = Append(@, [NewTask EXCEPT !.abort = abort]),
              !.ret = Len(w.tasks) + 1]

\* Task.withValue(result) and Task.withError(err): doSomething finishes the
\* task at once and returns nothing.
WithValue(w, result) ==
    [w EXCEPT !.tasks = Append(@, [NewTask EXCEPT
                                     !.finished = [err |-> Null, result |-> result]]),
              !.ret = Len(w.tasks) + 1]

WithError(w, err) ==
    [w EXCEPT !.tasks = Append(@, [NewTask EXCEPT
                                     !.finished = [err |-> err, result |-> Null]]),
              !.ret = Len(w.tasks) + 1]

\* me.thenDo(onResolve, onReject) = compose(me, setListener, onResolve,
\* onReject): a new task whose doSomething sets the listener of the first
\* task and returns cancelCompositeTask.  setListener throws when the first
\* task has a listener already; Task.start catches it and the new task is
\* finished with the Error (its abort is never assigned).  On a finished
\* first task the listener runs at once.
Compose(w, first, onResolve, onReject) ==
    LET c == Len(w.tasks) + 1
        ft == w.tasks[first]
        w1 == [w EXCEPT !.tasks = Append(@, [NewTask EXCEPT
                                               !.currentTask = first,
                                               !.onResolve = onResolve,
                                               !.onReject = onReject]),
                        !.ret = c]
    IN  IF ft.onFinish # Null
        THEN Finish(w1, c, ListenerError, Null)
        ELSE IF ft.finished # Null
        THEN [WhenFirstTaskFinishes(
                 [w1 EXCEPT !.tasks[first].onFinish = Noop],
                 Fn("whenFirstTaskFinishes", c), ft.finished.err, ft.finished.result)
                 EXCEPT !.tasks[c].abort = Fn("cancelCompositeTask", c)]
        ELSE [w1 EXCEPT !.tasks[first].onFinish = Fn("whenFirstTaskFinishes", c),
                        !.tasks[c].abort = Fn("cancelCompositeTask", c)]

\* Mutant: finally always keeps the cleanup for the finish of the task.
FinallyPushOnly(w, t, cleanup) ==
    [w EXCEPT !.tasks[t].cleaners = Append(@, cleanup), !.ret = t]

\* me.finally(cleanup): cleanup runs on the tick after the task finishes.
Finally(w, t, cleanup) ==
    IF w.tasks[t].finished = Null
    THEN [w EXCEPT !.tasks[t].cleaners = Append(@, cleanup), !.ret = t]
    ELSE [w EXCEPT !.ticks = Append(@, TickOf(cleanup, Null, Null)), !.ret = t]

\* wait(delayMs): a task that setTimeout resolves, and whose cancel clears
\* the timer.  The timer carries the id of its task.
Wait(w, delayMs) ==
    LET t == Len(w.tasks) + 1
    IN  [w EXCEPT !.tasks = Append(@, [NewTask EXCEPT !.abort = Fn("clearTimeout", t)]),
                  !.timers = @ \cup {[id |-> t, left |-> delayMs]},
                  !.ret = t]

RECURSIVE RaceEach(_, _, _)
\* tasks.forEach(task => task.finally(cancelAll).thenDo(resolve, reject))
RaceEach(w, r, ts) ==
    IF ts = << >> THEN w
    ELSE RaceEach(Compose(Finally(w, Head(ts), Fn("cancelAll", r)), Head(ts),
                          Fn("resolve", r), Fn("reject", r)),
                  r, Tail(ts))

\* Mutant: the race returns no cancel function.
RaceNoAbort(w, ts) ==
    LET r == Len(w.tasks) + 1
        w1 == [w EXCEPT !.tasks = Append(@, [NewTask EXCEPT !.members = ts])]
        w2 == RaceEach(w1, r, ts)
    IN  [w2 EXCEPT !.ret = r]

\* Task.race(tasks)
Race(w, ts) ==
    LET r == Len(w.tasks) + 1
        w1 == [w EXCEPT !.tasks = Append(@, [NewTask EXCEPT !.members = ts])]
        w2 == RaceEach(w1, r, ts)
    IN  [w2 EXCEPT !.tasks[r].abort = Fn("cancelAll", r), !.ret = r]

\* ----------------------------------------------------------------- time
\* Times are kept relative to the present reading of getTime(): where the
\* code holds a time, the model holds how long ago it was read (its age),
\* counted up to Period, beyond which the code's arithmetic gives 0; a timer
\* holds the time left until it fires.  No timer fires early, and the
\* nextTick queue is empty before a timer fires or time passes.
Limit == 1      \* rate.limit of the client, limit of the ThrottledQueue
Period == 1     \* rate.period of the client, period of the ThrottledQueue

Older(age) == IF age < Period THEN age + 1 ELSE Period

\* A time read from getTime(), as a value the circular buffer holds.
Time(age) == [age |-> age]

\* -------------------------------------------------------- circularBuffer
\* circularBuffer.create(size): items = [], current = 0
CircularBufferCreate(size) ==
    [items |-> [i \in 0..(size - 1) |-> Null], current |-> 0, size |-> size]

\* insert(item)
Insert(buf, item) ==
    LET c == (buf.current + 1) % buf.size
    IN  [buf EXCEPT !.current = c, !.items[c] = item]

\* item(i): the i-th most recently inserted item, undefined when there is
\* none.
Item(buf, i) == buf.items[(buf.current - i + buf.size) % buf.size]

\* ------------------------------------------------------- ThrottledQueue
\* ThrottledQueue.create(limit, period): queue = task.withValue(),
\* recentTimes = circularBuffer.create(limit)
ThrottledQueueCreate(w, limit) ==
    LET w1 == WithValue(w, Null)
    IN  [w1 EXCEPT !.queue = w1.ret, !.recentTimes = CircularBufferCreate(limit)]

\* Mutant: add chains the new task to the queue and returns the queue.
AddChained(w, doSomething) ==
    LET j   == Len(w.env.jobs) + 1
        w1  == Compose(w, w.queue, Fn("waitForRate", j), Null)
        w2  == Compose(w1, w1.ret, Fn("recordTime", j), Null)
        w3  == Compose(w2, w2.ret, doSomething, Null)
    IN  [w3 EXCEPT !.queue = w3.ret,
                   !.env.jobs = Append(@, [handle |-> w3.ret, recorded |-> FALSE,
                                             called |-> FALSE, inner |-> 0,
                                             cancelled |-> FALSE, early |-> FALSE])]

\* me.add(doSomething).  The tasks it makes, in order: the task that
\* resolves when the present queue finishes; its two thenDo (the wait for
\* the rate limit, and the recording of the start time: waitForMyTurn); the
\* new queue; and the task returned, waitForMyTurn.thenDo(doSomething).
\* The caller's record of the added job is kept in env.jobs.
Add(w, doSomething) ==
    LET j   == Len(w.env.jobs) + 1
        w0  == Start(w, Null)
        t0  == w0.ret
        w1  == Finally(w0, w.queue, Fn("resolve", t0))
        w2  == Compose(w1, t0, Fn("waitForRate", j), Null)
        w3  == Compose(w2, w2.ret, Fn("recordTime", j), Null)
        wft == w3.ret
        w4  == Compose(w3, w.queue, Fn("queueStep", wft), Null)
        w5  == [w4 EXCEPT !.queue = w4.ret]
        w6  == Compose(w5, wft, doSomething, Null)
    IN  [w6 EXCEPT !.env.jobs = Append(@, [handle |-> w6.ret, recorded |-> FALSE,
                                             called |-> FALSE, inner |-> 0,
                                             cancelled |-> FALSE, early |-> FALSE])]

\* Mutant: the wait for the rate limit is skipped.
WaitForRateSkipped(w) == [w EXCEPT !.ret = 0]

\* function() { var lastTime = recentTimes.item(limit - 1);
\*              if (lastTime == undefined) return;
\*              return wait(Math.max(lastTime + period - getTime(), 0)); }
WaitForRate(w) ==
    LET lastTime == Item(w.recentTimes, w.recentTimes.size - 1)
    IN  IF lastTime = Null THEN [w EXCEPT !.ret = 0]
        ELSE Wait(w, IF Period - lastTime.age > 0 THEN Period - lastTime.age ELSE 0)

\* How long ago the start recorded n starts before the next one was
\* recorded, from the caller's record of the starts (Period or more when
\* there is none).
AgeOfStart(starts, n) ==
    IF Len(starts) >= n THEN starts[Len(starts) + 1 - n] ELSE Period

\* function() { recentTimes.insert(getTime()); }, for job j.  The
\* caller's record: the job has its start recorded, the age of the start,
\* and the time since the start `limit` starts before.
RecordTime(w, j) ==
    [w EXCEPT !.recentTimes = Insert(@, Time(0)),
              !.env.jobs[j].recorded = TRUE,
              !.env.gaps = Append(@, AgeOfStart(w.env.starts, w.recentTimes.size)),
              !.env.starts = Append(@, 0),
              !.ret = 0]

\* Mutant: the queue does not wait for the task it has let through.
QueueStepAtOnce(w, waitForMyTurn) == [w EXCEPT !.ret = 0]

\* function() { return task.start(function(resolve) {
\*                  waitForMyTurn.finally(resolve); }); }
QueueStep(w, waitForMyTurn) ==
    LET w1 == Start(w, Null)
    IN  [Finally(w1, waitForMyTurn, Fn("resolve", w1.ret)) EXCEPT !.ret = w1.ret]

\* ------------------------------------------------------------ makeApiCall
Timeout == 2    \* options.timeout of the client
MaxBackoff == 1 \* the longest back-off wait of attempt

\* A response is null or [status, json], json being null or [status].
Response(status, jsonStatus) ==
    [status |-> status,
     json |-> IF jsonStatus = "" THEN Null ELSE [status |-> jsonStatus]]

\* canRetry(response, query)
CanRetry(response, pagetoken) ==
    \/ response = Null
    \/ response.status = 500
    \/ response.status = 503
    \/ response.status = 504
    \/ /\ response.json # Null
       /\ \/ response.json.status = "OVER_QUERY_LIMIT"
          \/ response.json.status = "RESOURCE_EXHAUSTED"
          \/ (response.json.status = "INVALID_REQUEST" /\ pagetoken)

\* isSuccessful(response)
IsSuccessful(response) ==
    /\ response.status = 200
    /\ \/ response.json = Null
       \/ response.json.status = "OK"
       \/ response.json.status = "ZERO_RESULTS"

\* makeUrlRequest(url, onSuccess, onError, options), onSuccess and onError
\* being the resolve and reject of task t: a new https request.  The
\* caller's record https holds the age of the start of each request.
MakeUrlRequest(w, t, c, redirect) ==
    [w EXCEPT !.requests = Append(@, [task |-> t, call |-> c, open |-> TRUE,
                                      aborted |-> FALSE, redirect |-> redirect]),
              !.env.https = Append(@, 0)]

\* function() { return task.start(function(resolve, reject) {
\*     return makeUrlRequest(requestUrl, resolve, reject, queryOptions); }); }
HttpGet(w, c) ==
    LET t == Len(w.tasks) + 1
        q == Len(w.requests) + 1
    IN  MakeUrlRequest(Start(w, Fn("abort", q)), t, c, FALSE)

\* function loop() { return doSomething().thenDo(...); } of attempt, with
\* doSomething = rateLimitedGet = requestQueue.add(...)
Loop(w, c) ==
    LET w1 == Add(w, Fn("httpGet", c))
    IN  Compose(w1, w1.ret, Fn("untilSuccessful", c), Null)

\* Mutant: a response with status 500 counts as final.
UntilSuccessfulBut500(w, c, result, delay) ==
    LET retry == /\ CanRetry(result, w.env.calls[c].pagetoken)
                 /\ (result = Null \/ result.status # 500)
        w0 == [w EXCEPT !.env.calls[c].responses =
                            Append(@, [response |-> result, retry |-> retry])]
    IN  IF ~retry THEN WithValue(w0, result)
        ELSE LET w1 == Wait(w0, delay)
             IN  Compose(w1, w1.ret, Fn("loop", c), Null)

\* function(result) { if (isSuccessful(result)) return Task.withValue(result);
\*                    ...; return wait(delay).thenDo(loop); } of attempt, with
\* isSuccessful = until = !canRetry(response, query).  The caller's record
\* responses holds each response and whether a retry was scheduled.
UntilSuccessful(w, c, result, delay) ==
    LET retry == CanRetry(result, w.env.calls[c].pagetoken)
        w0 == [w EXCEPT !.env.calls[c].responses =
                            Append(@, [response |-> result, retry |-> retry])]
    IN  IF ~retry THEN WithValue(w0, result)
        ELSE LET w1 == Wait(w0, delay)
             IN  Compose(w1, w1.ret, Fn("loop", c), Null)

\* attempt(options): Task.withValue().thenDo(loop)
Attempt(w, c) ==
    LET w1 == WithValue(w, Null)
    IN  Compose(w1, w1.ret, Fn("loop", c), Null)

\* function(response) { ...; if (isSuccessful(response)) return
\*     task.withValue(response); else return task.withError(response); }
CheckSuccess(w, response) ==
    IF IsSuccessful(response) THEN WithValue(w, response) ELSE WithError(w, response)

\* callback(err, response), as the caller sees it.
Callback(w, c, err, response) ==
    [w EXCEPT !.env.calls[c].callbacks = Append(@, [err |-> err, response |-> response]),
              !.ret = 0]

\* Mutant: the call has no timeout task.
MakeApiCallNoTimeout(w, pagetoken) ==
    LET c  == Len(w.env.calls) + 1
        w0 == [w EXCEPT !.env.calls = Append(@, [handle |-> 0, pagetoken |-> pagetoken,
                                                  callbacks |-> << >>,
                                                  responses |-> << >>,
                                                  cancelled |-> FALSE])]
        w3 == Attempt(w0, c)
        w4 == Race(w3, <<w3.ret>>)
        w5 == Compose(w4, w4.ret, Fn("checkSuccess", c), Null)
        w6 == Compose(w5, w5.ret, Fn("callbackOk", c), Fn("callbackErr", c))
    IN  [w6 EXCEPT !.env.calls[c].handle = w6.ret]

\* makeApiCall(path, query, callback): timeoutTask, requestTask, their race
\* and its two thenDo; the handle returned is the last task.
MakeApiCall(w, pagetoken) ==
    LET c  == Len(w.env.calls) + 1
        w0 == [w EXCEPT !.env.calls = Append(@, [handle |-> 0, pagetoken |-> pagetoken,
                                                  callbacks |-> << >>,
                                                  responses |-> << >>,
                                                  cancelled |-> FALSE])]
        w1 == Wait(w0, Timeout)
        w2 == Compose(w1, w1.ret, Fn("throwTimeout", 0), Null)
        w3 == Attempt(w2, c)
        w4 == Race(w3, <<w2.ret, w3.ret>>)
        w5 == Compose(w4, w4.ret, Fn("checkSuccess", c), Null)
        w6 == Compose(w5, w5.ret, Fn("callbackOk", c), Fn("callbackErr", c))
    IN  [w6 EXCEPT !.env.calls[c].handle = w6.ret]

\* ------------------------------------------------------ the event loop
TimeoutError == [error |-> "timeout"]

\* The job of env.jobs whose handle is task c has its doSomething called.
JobCalled(w, c) ==
    [w EXCEPT !.env.jobs = [j \in DOMAIN @ |->
                               IF @[j].handle = c THEN [@[j] EXCEPT !.called = TRUE]
                               ELSE @[j]],
              !.env.order = @ \o SelectSeq([j \in DOMAIN w.env.jobs |-> j],
                                           LAMBDA j : w.env.jobs[j].handle = c)]

\* The doSomething a caller gives to the queue: it starts a task.
Job(w, j) ==
    LET w1 == Start(w, Null)
    IN  [w1 EXCEPT !.env.jobs[j].inner = w1.ret]

\* A handler a caller gives to thenDo: it notes what it is called with.
Heard(w, self, kind, arg) ==
    [w EXCEPT !.env.heard = Append(@, [by |-> self, kind |-> kind, arg |-> arg]),
              !.ret = 0]

\* Bounds of a caller of the Task library.
MaxTasks == 3   \* Task objects made
MaxEvents == 3  \* calls of resolve, reject and cancel, and exceptions thrown

\* A handler a caller gives to thenDo that creates the subsequent task: it
\* notes what it is called with, starts a task (while the caller may make
\* one) and returns it.
HeardStart(w, self, kind, arg) ==
    IF Len(w.tasks) >= MaxTasks THEN Heard(w, self, kind, arg)
    ELSE LET w1 == Start(w, Fn("userAbort", 0))
         IN  [w1 EXCEPT !.env.heard = Append(@, [by |-> self, kind |-> kind,
                                                 arg |-> arg, made |-> w1.ret]),
                        !.env.mine = Append(@, w1.ret)]

\* The call fn(arg) of an onResolve or onReject by the task `self` made by
\* thenDo; delay is the back-off that Math.random() gives to attempt.
Apply(w, fn, arg, self, delay) ==
    CASE fn.f = "resolve" -> [Finish(w, fn.t, Null, arg) EXCEPT !.ret = 0]
      [] fn.f = "reject" -> [Finish(w, fn.t, arg, Null) EXCEPT !.ret = 0]
      [] fn.f = "waitForRate" -> WaitForRate(w)
      [] fn.f = "recordTime" -> RecordTime(w, fn.t)
      [] fn.f = "queueStep" -> QueueStep(w, fn.t)
      [] fn.f = "job" -> Job(JobCalled(w, self), fn.t)
      [] fn.f = "httpGet" -> HttpGet(JobCalled(w, self), fn.t)
      [] fn.f = "loop" -> Loop(w, fn.t)
      [] fn.f = "untilSuccessful" -> UntilSuccessful(w, fn.t, arg, delay)
      [] fn.f = "throwTimeout" -> [w EXCEPT !.thrown = TimeoutError]
      [] fn.f = "checkSuccess" -> CheckSuccess(w, arg)
      [] fn.f = "callbackOk" -> Callback(w, fn.t, Null, arg)
      [] fn.f = "callbackErr" -> Callback(w, fn.t, arg, Null)
      [] fn.f = "onResolve" -> Heard(w, self, "onResolve", arg)
      [] fn.f = "onReject" -> Heard(w, self, "onReject", arg)
      [] fn.f = "onResolveTask" -> HeardStart(w, self, "onResolve", arg)
      [] fn.f = "onRejectTask" -> HeardStart(w, self, "onReject", arg)
      [] OTHER -> [w EXCEPT !.ret = 0]

\* Mutant: the deferred function does not look at `cancelled`.
ComposeTickIgnoringCancel(w, c, err, result, delay) ==
    LET task == w.tasks[c]
        fn == IF err = Null THEN task.onResolve ELSE task.onReject
    IN  IF err = Cancelled THEN Finish(w, c, Cancelled, Null)
        ELSE IF fn = Null
        THEN (IF err = Null THEN Finish(w, c, Null, result) ELSE Finish(w, c, err, Null))
        ELSE LET w1 == Apply([w EXCEPT !.ret = 0, !.thrown = Null], fn,
                             IF err = Null THEN result ELSE err, c, delay)
             IN  IF w1.thrown # Null THEN Finish(w1, c, w1.thrown, Null)
                 ELSE IF w1.ret = 0 THEN Finish(w1, c, Null, Null)
                 ELSE Compose([w1 EXCEPT !.tasks[c].currentTask = w1.ret], w1.ret,
                              Fn("resolve", c), Fn("reject", c))

\* The function compose defers to the next tick, for the task c made by
\* thenDo, with the outcome (err, result) of the first task.
ComposeTick(w, c, err, result, delay) ==
    LET task == w.tasks[c]
        fn == IF err = Null THEN task.onResolve ELSE task.onReject
    IN  IF task.cancelled \/ err = Cancelled THEN Finish(w, c, Cancelled, Null)
        ELSE IF fn = Null
        THEN (IF err = Null THEN Finish(w, c, Null, result) ELSE Finish(w, c, err, Null))
        ELSE LET w1 == Apply([w EXCEPT !.ret = 0, !.thrown = Null], fn,
                             IF err = Null THEN result ELSE err, c, delay)
             IN  IF w1.thrown # Null THEN Finish(w1, c, w1.thrown, Null)
                 ELSE IF w1.ret = 0 THEN Finish(w1, c, Null, Null)
                 ELSE Compose([w1 EXCEPT !.tasks[c].currentTask = w1.ret], w1.ret,
                              Fn("resolve", c), Fn("reject", c))

\* A cleanup given to finally, called with no argument.
Cleanup(w, fn) ==
    CASE fn.f = "resolve" -> Finish(w, fn.t, Null, Null)
      [] fn.f = "cancelAll" -> CancelEach(w, w.tasks[fn.t].members)
      [] fn.f = "cleanup" -> [w EXCEPT !.env.cleaned = Append(@, fn.t)]
      [] OTHER -> w

\* The callback at the head of the nextTick queue runs.
RunTick(w, delay) ==
    LET tick == Head(w.ticks)
        w1 == [w EXCEPT !.ticks = Tail(@)]
    IN  IF tick.fn.f = "composeTick"
        THEN ComposeTick(w1, tick.fn.t, tick.err, tick.result, delay)
        ELSE Cleanup(w1, tick.fn)

\* Whether the callback at the head of the nextTick queue draws a random
\* back-off.
DrawsDelay(w) ==
    /\ Head(w.ticks).fn.f = "composeTick"
    /\ LET task == w.tasks[Head(w.ticks).fn.t]
       IN  /\ ~task.cancelled
           /\ Head(w.ticks).err = Null
           /\ task.onResolve # Null
           /\ task.onResolve.f = "untilSuccessful"

Backoffs(w) == IF DrawsDelay(w) THEN 1..MaxBackoff ELSE {1}

\* The caller's record when nothing has happened.
EnvEmpty ==
    [jobs |-> << >>, order |-> << >>, starts |-> << >>, gaps |-> << >>,
     calls |-> << >>, https |-> << >>, watch |-> FALSE, listened |-> << >>,
     heard |-> << >>, cleaned |-> << >>, mine |-> << >>, held |-> << >>,
     thens |-> << >>, events |-> << >>, count |-> 0, turn |-> FALSE,
     log |-> << >>, race |-> Null, cleanups |-> << >>]

\* The callbacks of process.nextTick all run before the event loop goes on
\* to another event.  So a call from outside the library (from the code of
\* a timer, of an I/O event, of the main program) comes when the nextTick
\* queue is empty, or follows such a call before any deferred callback has
\* run: env.turn tells that the calls of one such piece of code are being
\* made.
InTurn == ticks = << >> \/ env.turn
Turn(w) == [w EXCEPT !.env.turn = (w.ticks # << >>)]

\* process.nextTick: the next deferred callback runs.
Tick ==
    /\ ticks # << >>
    /\ \E d \in Backoffs(World) :
          SetWorld([RunTick(World, d) EXCEPT !.env.turn = FALSE])
    /\ UNCHANGED webVars

\* A timer that is due fires: setTimeout(resolve, delayMs) of wait.
Fire ==
    /\ ticks = << >>
    /\ \E x \in timers :
          /\ x.left = 0
          /\ SetWorld(Finish([World EXCEPT !.timers = @ \ {x}], x.id, Null, Null))
    /\ UNCHANGED webVars

\* Time passes by one unit, when no timer is due and no callback waits.
Pass ==
    /\ ticks = << >>
    /\ \A x \in timers : x.left > 0
    /\ timers' = {[x EXCEPT !.left = @ - 1] : x \in timers}
    /\ recentTimes' = IF recentTimes = Null THEN Null
                      ELSE [recentTimes EXCEPT
                              !.items = [i \in DOMAIN @ |->
                                           IF @[i] = Null THEN Null
                                           ELSE Time(Older(@[i].age))]]
    /\ env' = [env EXCEPT !.starts = [i \in DOMAIN @ |-> Older(@[i])],
                          !.https = [i \in DOMAIN @ |-> Older(@[i])]]
    /\ UNCHANGED <<tasks, ticks, queue, requests>>
    /\ UNCHANGED webVars

\* ------------------------------------------------------------ a Task
\* A caller of the Task library: it starts tasks with Task.start, keeps
\* their resolve and reject, and calls resolve, reject, cancel and thenDo in
\* any order.
\* The web server is not part of a run of the Maps client.
WebUnused ==
    /\ cfg = Null
    /\ fs = Null
    /\ portInUse = FALSE
    /\ pc = "none"
    /\ steps = << >>
    /\ controller = Null
    /\ app = Null
    /\ server = "none"
    /\ sigintHandler = FALSE
    /\ closeCbs = 0
    /\ sigints = 0
    /\ idle = 0
    /\ busy = 0
    /\ last = Null
    /\ console = {}
    /\ exited = FALSE
    /\ exitCode = 0

Results == {[value |-> "done"]}
Errors == {[error |-> "failed"]}
Outcomes ==
    {[err |-> Null, result |-> v] : v \in Results}
        \cup {[err |-> e, result |-> Null] : e \in Errors}

TaskInit ==
    /\ WebUnused
    /\ tasks = << >>
    /\ ticks = << >>
    /\ timers = {}
    /\ recentTimes = Null
    /\ queue = 0
    /\ requests = << >>
    /\ env = [EnvEmpty EXCEPT !.watch = TRUE,
                             !.events = [t \in 1..MaxTasks |-> << >>]]

InSeq(x, s) == \E i \in DOMAIN s : s[i] = x

\* The caller notes an event (resolve, reject, cancel or an exception) on
\* task t.
Noted(w, t, ev) ==
    [w EXCEPT !.env.events[t] = Append(@, ev), !.env.count = @ + 1]

\* Task.start(doSomething), for a doSomething that keeps resolve and reject
\* for later and, before it returns, does nothing more (ev = Null), calls
\* resolve or reject, or throws (ev the outcome).
TaskStart(ev) ==
    /\ Len(tasks) < MaxTasks
    /\ ev # Null => env.count < MaxEvents
    /\ LET t  == Len(tasks) + 1
           w1 == Start(World, Fn("userAbort", 0))
           w2 == [w1 EXCEPT !.env.mine = Append(@, t)]
       IN  SetWorld(IF ev = Null THEN w2
                    ELSE Noted(Finish(w2, t, ev.err, ev.result), t, ev))
    /\ UNCHANGED webVars

\* resolve(result), reject(err) of a started task.
TaskSettle(t, ev) ==
    /\ InSeq(t, env.mine)
    /\ env.count < MaxEvents
    /\ SetWorld(Noted(Finish(World, t, ev.err, ev.result), t, ev))
    /\ UNCHANGED webVars

\* task.cancel() of a started task.
TaskCancel(t) ==
    /\ InSeq(t, env.mine)
    /\ env.count < MaxEvents
    /\ SetWorld(Noted(Cancel(World, t), t, [err |-> Cancelled, result |-> Null]))
    /\ UNCHANGED webVars

\* task.thenDo(onResolve, onReject) on a task the caller holds: the caller
\* notes the task it got, and the exception the call threw.
TaskThenDo(t) ==
    /\ InSeq(t, env.mine) \/ InSeq(t, env.held)
    /\ Len(tasks) < MaxTasks
    /\ LET w1 == Compose(World, t, Fn("onResolve", 0), Fn("onReject", 0))
       IN  SetWorld([w1 EXCEPT !.env.held = Append(@, w1.ret),
                               !.env.thens = Append(@, [of |-> t, by |-> w1.ret,
                                                        thrown |-> w1.thrown])])
    /\ UNCHANGED webVars

TaskNext ==
    \/ \E ev \in Outcomes \cup {Null} : TaskStart(ev)
    \/ \E t \in 1..MaxTasks, ev \in Outcomes : TaskSettle(t, ev)
    \/ \E t \in 1..MaxTasks : TaskCancel(t)
    \/ \E t \in 1..MaxTasks : TaskThenDo(t)
    \/ Tick

TaskSpec == TaskInit /\ [][TaskNext]_vars

\* The events the caller noted on task t, in order (env.events is kept by
\* task).
EventsOn(t) == env.events[t]

\* The calls of the listeners set on task t, in order.
ListenedOn(t) ==
    SelectSeq(env.listened,
              LAMBDA l : \E i \in DOMAIN env.thens :
                            env.thens[i].of = t /\ env.thens[i].by = l.by)

\* C20: a Task finishes at most once: the first of resolve, reject, an
\* exception thrown by doSomething and cancel fixes its outcome, every later
\* one is ignored, and the listener of the task is called at most once, with
\* the (err, result) of the first event, and once when the task has a
\* listener and an outcome.
C20_FinishOnce ==
    \A i \in DOMAIN env.mine :
        LET t == env.mine[i] IN
        /\ EventsOn(t) = << >> => tasks[t].finished = Null
        /\ EventsOn(t) # << >> =>
              /\ tasks[t].finished = EventsOn(t)[1]
              /\ \A k \in DOMAIN ListenedOn(t) :
                    /\ ListenedOn(t)[k].err = EventsOn(t)[1].err
                    /\ ListenedOn(t)[k].result = EventsOn(t)[1].result
              /\ tasks[t].onFinish # Null => Len(ListenedOn(t)) = 1
        /\ Len(ListenedOn(t)) <= 1

\* A task with a listener had a second, different event after its first.
C20_Witness ==
    \E i \in DOMAIN env.mine :
        /\ Len(EventsOn(env.mine[i])) >= 2
        /\ EventsOn(env.mine[i])[2] # EventsOn(env.mine[i])[1]
        /\ Len(ListenedOn(env.mine[i])) = 1

\* ------------------------------------------------- a ThrottledQueue
\* A caller of one ThrottledQueue(Limit, Period): it adds jobs and cancels
\* the tasks add returned.  The task a job starts stays pending.
MaxJobs == 3    \* calls of add
MaxCancels == 1 \* calls of cancel

QueueInit ==
    /\ WebUnused
    /\ LET w == ThrottledQueueCreate(
                   [tasks |-> << >>, ticks |-> << >>, timers |-> {},
                    recentTimes |-> Null, queue |-> 0, requests |-> << >>,
                    env |-> EnvEmpty, ret |-> 0, thrown |-> Null], Limit)
       IN  /\ tasks = w.tasks
           /\ ticks = w.ticks
           /\ timers = w.timers
           /\ recentTimes = w.recentTimes
           /\ queue = w.queue
           /\ requests = w.requests
           /\ env = w.env

\* queue.add(doSomething)
QueueAdd ==
    /\ InTurn
    /\ Len(env.jobs) < MaxJobs
    /\ SetWorld(Turn(Add(World, Fn("job", Len(env.jobs) + 1))))
    /\ UNCHANGED webVars

\* cancel() of the task add returned for job j; the caller notes whether
\* the start of the job was recorded by then.
QueueCancel(j) ==
    /\ j \in DOMAIN env.jobs
    /\ ~env.jobs[j].cancelled
    /\ Cardinality({i \in DOMAIN env.jobs : env.jobs[i].cancelled}) < MaxCancels
    /\ InTurn
    /\ tasks[env.jobs[j].handle].finished = Null
    /\ SetWorld(Turn([Cancel(World, env.jobs[j].handle) EXCEPT
                         !.env.jobs[j].cancelled = TRUE,
                         !.env.jobs[j].early = ~env.jobs[j].recorded]))
    /\ UNCHANGED webVars

QueueNext ==
    \/ QueueAdd
    \/ \E j \in 1..MaxJobs : QueueCancel(j)
    \/ Tick
    \/ Fire
    \/ Pass

QueueSpec == QueueInit /\ [][QueueNext]_vars

\* A step of the event loop: a deferred callback runs, a timer fires or
\* time passes.
EventLoop == Tick \/ Fire \/ Pass

\* Whether the event loop has nothing to do: no callback waits, no timer is
\* set, and no time the library holds can grow older.  This is the
\* negation of ENABLED <<EventLoop>>_vars.
EventLoopIdle ==
    /\ ticks = << >>
    /\ timers = {}
    /\ recentTimes # Null =>
          \A i \in DOMAIN recentTimes.items :
              recentTimes.items[i] # Null => recentTimes.items[i].age = Period
    /\ \A k \in DOMAIN env.starts : env.starts[k] = Period
    /\ \A k \in DOMAIN env.https : env.https[k] = Period

\* The event loop keeps running: weak fairness of EventLoop, that is
\* WF_vars(EventLoop), written with the state predicate for its ENABLED.
EventLoopFair == []<>EventLoopIdle \/ []<><<EventLoop>>_vars

QueueLiveSpec == QueueSpec /\ EventLoopFair

\* C17: the k-th start recorded by the queue is never earlier than the
\* start recorded Limit starts before it plus Period, and at most Limit
\* starts are recorded within any window of length Period.
C17_RateLimited ==
    /\ \A k \in DOMAIN env.gaps : env.gaps[k] >= Period
    /\ Cardinality({k \in DOMAIN env.starts : env.starts[k] < Period}) <= Limit

\* More than Limit starts were recorded, after a cancel.
C17_Witness ==
    /\ Len(env.starts) > Limit
    /\ \E j \in DOMAIN env.jobs : env.jobs[j].cancelled

\* C18: cancelling a task add returned never cancels the queue: every job
\* added before or after it that is not cancelled is eventually started
\* (from some time on, every job added was started or cancelled).
C18_OthersStillStart ==
    <>[](\A j \in DOMAIN env.jobs : env.jobs[j].called \/ env.jobs[j].cancelled)

\* A job was cancelled while it waited, and a job added later was started.
C18_Witness ==
    \E i, j \in DOMAIN env.jobs :
        /\ i < j
        /\ env.jobs[i].early
        /\ env.jobs[j].called /\ ~env.jobs[j].cancelled

\* C19: jobs start in the order of their add: a job is started only when
\* every job added before it was started or cancelled, and a job cancelled
\* before its start was recorded is never started and never has a start
\* recorded.
C19_AddOrder ==
    /\ \A a, b \in DOMAIN env.order : a < b => env.order[a] < env.order[b]
    /\ \A i, j \in DOMAIN env.jobs :
          (i < j /\ env.jobs[j].called) => (env.jobs[i].called \/ env.jobs[i].cancelled)
    /\ \A j \in DOMAIN env.jobs :
          env.jobs[j].early => (~env.jobs[j].called /\ ~env.jobs[j].recorded)

\* Two jobs were started, and a job between or before them was cancelled
\* before its turn.
C19_Witness ==
    /\ Len(env.order) >= 2
    /\ \E j \in DOMAIN env.jobs : env.jobs[j].early /\ j < env.order[Len(env.order)]

\* ------------------------------------------------------ a Maps client
\* A caller of one client made by createClient: it makes an API call and
\* may cancel the handle returned; the network answers the requests of
\* makeUrlRequest, or fails them, or redirects them.  (Several jobs in one
\* queue are the matter of the ThrottledQueue above.)
MaxRedirects == 1   \* responses with status 302

\* The responses the network gives: a success, a retriable one, one that is
\* retriable when the query has a pagetoken, and a final failure.
Responses ==
    {Response(200, "OK"), Response(500, ""),
     Response(200, "INVALID_REQUEST"), Response(200, "REQUEST_DENIED")}

\* The responses canRetry and isSuccessful tell apart.
AllResponses ==
    {Null} \cup
    {Response(st, js) :
        st \in {200, 400, 500, 503, 504},
        js \in {"", "OK", "ZERO_RESULTS", "OVER_QUERY_LIMIT", "RESOURCE_EXHAUSTED",
                "INVALID_REQUEST", "REQUEST_DENIED"}}

NetworkError == [error |-> "ECONNRESET"]

ClientInit ==
    /\ WebUnused
    /\ LET w == ThrottledQueueCreate(
                   [tasks |-> << >>, ticks |-> << >>, timers |-> {},
                    recentTimes |-> Null, queue |-> 0, requests |-> << >>,
                    env |-> EnvEmpty, ret |-> 0, thrown |-> Null], Limit)
       IN  /\ tasks = w.tasks
           /\ ticks = w.ticks
           /\ timers = w.timers
           /\ recentTimes = w.recentTimes
           /\ queue = w.queue
           /\ requests = w.requests
           /\ env = w.env

\* An API method of the client is called: makeApiCall(path, query, callback).
ApiCall(pagetoken) ==
    /\ InTurn
    /\ env.calls = << >>
    /\ SetWorld(Turn(MakeApiCall(World, pagetoken)))
    /\ UNCHANGED webVars

\* handle.cancel() of call c.
HandleCancel(c) ==
    /\ c \in DOMAIN env.calls
    /\ InTurn
    /\ ~env.calls[c].cancelled
    /\ tasks[env.calls[c].handle].finished = Null
    /\ SetWorld(Turn([Cancel(World, env.calls[c].handle) EXCEPT
                         !.env.calls[c].cancelled = TRUE]))
    /\ UNCHANGED webVars

\* Whether request q waits for its response.
InFlight(q) == requests[q].open /\ ~requests[q].aborted

\* The response of request q has arrived: onSuccess(response).
Answer(q, response) ==
    /\ q \in DOMAIN requests
    /\ ticks = << >>
    /\ InFlight(q)
    /\ SetWorld(Finish([World EXCEPT !.requests[q].open = FALSE],
                       requests[q].task, Null, response))
    /\ UNCHANGED webVars

\* Request q fails: onError(error).
Fail(q) ==
    /\ q \in DOMAIN requests
    /\ ticks = << >>
    /\ InFlight(q)
    /\ SetWorld(Finish([World EXCEPT !.requests[q].open = FALSE],
                       requests[q].task, NetworkError, Null))
    /\ UNCHANGED webVars

\* The response of request q has status 302: makeUrlRequest calls itself
\* with the new location and the same onSuccess and onError, and drops the
\* cancel function of the new request.
Redirect(q) ==
    /\ q \in DOMAIN requests
    /\ ticks = << >>
    /\ InFlight(q)
    /\ Cardinality({x \in DOMAIN requests : requests[x].redirect}) < MaxRedirects
    /\ SetWorld(MakeUrlRequest([World EXCEPT !.requests[q].open = FALSE],
                               requests[q].task, requests[q].call, TRUE))
    /\ UNCHANGED webVars

ClientNext ==
    \/ \E p \in BOOLEAN : ApiCall(p)
    \/ \E c \in DOMAIN env.calls : HandleCancel(c)
    \/ \E q \in DOMAIN requests, r \in Responses : Answer(q, r)
    \/ \E q \in DOMAIN requests : Fail(q)
    \/ \E q \in DOMAIN requests : Redirect(q)
    \/ Tick
    \/ Fire
    \/ Pass

ClientSpec == ClientInit /\ [][ClientNext]_vars

ClientLiveSpec == ClientSpec /\ EventLoopFair

\* C13: a client never starts more than Limit HTTP requests within any
\* window of Period, counting every request: those of all API methods,
\* the retries and the requests that follow a redirect.
C13_RequestsRateLimited ==
    Cardinality({k \in DOMAIN env.https : env.https[k] < Period}) <= Limit

\* The requests of call c made through the queue, and its retries.
QueuedRequests(c) ==
    {q \in DOMAIN requests : requests[q].call = c /\ ~requests[q].redirect}

Retries(c) ==
    {k \in DOMAIN env.calls[c].responses : env.calls[c].responses[k].retry}

\* What the claims call a retriable response.
Retriable(response, pagetoken) ==
    \/ response = Null
    \/ response.status \in {500, 503, 504}
    \/ /\ response.json # Null
       /\ \/ response.json.status \in {"OVER_QUERY_LIMIT", "RESOURCE_EXHAUSTED"}
          \/ (response.json.status = "INVALID_REQUEST" /\ pagetoken)

\* Whether a value given to the callback is a response (not an error).
IsResponse(x) == x # Null /\ "status" \in DOMAIN x

\* C14: the callback of an API call whose handle is never cancelled is
\* invoked exactly once, with an error or with a response: never twice,
\* and eventually once.
C14_CallbackOnce ==
    /\ [](\A c \in DOMAIN env.calls :
            /\ Len(env.calls[c].callbacks) <= 1
            /\ \A k \in DOMAIN env.calls[c].callbacks :
                  (env.calls[c].callbacks[k].err = Null)
                      # (env.calls[c].callbacks[k].response = Null))
    /\ <>[](\A c \in DOMAIN env.calls :
              env.calls[c].cancelled \/ Len(env.calls[c].callbacks) = 1)

\* A call was answered after a retry, its timeout still pending when the
\* final response came.
C14_Witness ==
    \E c \in DOMAIN env.calls :
        /\ Len(env.calls[c].callbacks) = 1
        /\ env.calls[c].callbacks[1].err = Null
        /\ Retries(c) # {}

\* Whether call c was given the error 'timeout'.
TimedOut(c) ==
    /\ env.calls[c].callbacks # << >>
    /\ env.calls[c].callbacks[1].err = TimeoutError

\* C15: a call that gets no final response within Timeout has its callback
\* invoked with 'timeout' and its pending work cancelled: no request of the
\* call stays in flight, no wait stays pending, no retry is started.
C15_TimeoutCancelsAll ==
    /\ \A c \in DOMAIN env.calls :
          TimedOut(c) => \A q \in DOMAIN requests :
                            requests[q].call = c => ~InFlight(q)
    /\ (\A c \in DOMAIN env.calls : TimedOut(c)) => timers = {}

TaskThenDoTask(t) ==
    /\ InSeq(t, env.mine) \/ InSeq(t, env.held)
    /\ Len(tasks) < MaxTasks
    /\ LET w1 == Compose(World, t, Fn("onResolveTask", 0), Fn("onRejectTask", 0))
       IN  SetWorld([w1 EXCEPT !.env.held = Append(@, w1.ret),
                               !.env.thens = Append(@, [of |-> t, by |-> w1.ret,
                                                        thrown |-> w1.thrown])])
    /\ UNCHANGED webVars

CancelledOutcome == [err |-> Cancelled, result |-> Null]

\* composite.cancel() of a task the caller got from thenDo.
ComposeCancel(c) ==
    /\ InSeq(c, env.held)
    /\ env.count < MaxEvents
    /\ SetWorld(Noted(Cancel(World, c), c, CancelledOutcome))
    /\ UNCHANGED webVars

ComposeNext ==
    \/ \E ev \in Outcomes \cup {Null} : TaskStart(ev)
    \/ \E t \in 1..MaxTasks, ev \in Outcomes : TaskSettle(t, ev)
    \/ \E t \in 1..MaxTasks : TaskCancel(t)
    \/ \E t \in 1..MaxTasks : TaskThenDo(t)
    \/ \E t \in 1..MaxTasks : TaskThenDoTask(t)
    \/ \E c \in 1..MaxTasks : ComposeCancel(c)
    \/ Tick

ComposeSpec == TaskInit /\ [][ComposeNext]_vars

\* The composite tasks the caller got from thenDo, the first task of one,
\* the calls of its handlers and the subsequent task its handler returned
\* (0: none).
Composites == {env.held[i] : i \in DOMAIN env.held}
FirstOf(c) == env.thens[CHOOSE i \in DOMAIN env.thens : env.thens[i].by = c].of
HeardBy(c) == SelectSeq(env.heard, LAMBDA h : h.by = c)
Subsequent(c) ==
    IF HeardBy(c) # << >> /\ "made" \in DOMAIN HeardBy(c)[1]
    THEN HeardBy(c)[1].made ELSE 0

\* C21: cancel() of an unfinished composite task made by thenDo finishes it
\* with 'cancelled' and cancels the first task when that has not finished,
\* otherwise the subsequent task (when there is one); and no handler of a
\* composite task that has finished with 'cancelled' is called afterwards.
C21_CancelComposite ==
    [][\A c \in Composites :
          /\ (ComposeCancel(c) /\ tasks[c].finished = Null) =>
                /\ tasks'[c].finished = CancelledOutcome
                /\ tasks[FirstOf(c)].finished = Null
                      => tasks'[FirstOf(c)].finished = CancelledOutcome
                /\ ( /\ tasks[FirstOf(c)].finished # Null
                     /\ Subsequent(c) # 0
                     /\ tasks[Subsequent(c)].finished = Null )
                      => tasks'[Subsequent(c)].finished = CancelledOutcome
          /\ tasks[c].finished = CancelledOutcome => HeardBy(c)' = HeardBy(c)
      ]_vars

\* A composite task was cancelled after its first task had resolved and
\* before the deferred call of its handler: the handler was not called.
C21_Witness ==
    \E c \in Composites :
        /\ EventsOn(c) = <<CancelledOutcome>>
        /\ tasks[c].finished = CancelledOutcome
        /\ tasks[FirstOf(c)].finished # Null
        /\ tasks[FirstOf(c)].finished.err = Null
        /\ tasks[c].onResolve = Fn("onResolveTask", 0)
        /\ HeardBy(c) = << >>
        /\ ticks = << >>


\* C22: a second call of thenDo on a task throws the Error 'thenDo/finally
\* called more than once' to its caller and sets no second listener: the
\* handlers given to it are never called, and the listener of the task is
\* called at most once.
C22_SecondThenDoThrows ==
    \A i, j \in DOMAIN env.thens :
        (i < j /\ env.thens[i].of = env.thens[j].of) =>
            /\ env.thens[j].thrown = ListenerError
            /\ HeardBy(env.thens[j].by) = << >>
            /\ Len(ListenedOn(env.thens[j].of)) <= 1


\* ------------------------------------------------------ a race
\* A caller that starts tasks, calls Task.race on them (in the order it
\* started them) and resolves, rejects or cancels the tasks and cancels the
\* race, in any order.  env.log has its calls in order, each with whether
\* the task had not finished before (first, noted before the call is made);
\* env.race is the race and the
\* length of the log when it was made.
Logged(w, t, ev) ==
    [w EXCEPT !.env.log = Append(@, [task |-> t, ev |-> ev,
                                     first |-> (w.tasks[t].finished = Null)]),
              !.env.count = @ + 1]

MaxRacers == 2  \* tasks given to Task.race

\* Task.start of a task to be given to the race: its doSomething keeps
\* resolve and reject for later.
MemberStart ==
    /\ env.race = Null
    /\ Len(env.mine) < MaxRacers
    /\ LET w1 == Start(World, Fn("userAbort", 0))
       IN  SetWorld([w1 EXCEPT !.env.mine = Append(@, w1.ret)])
    /\ UNCHANGED webVars

\* resolve(result), reject(err) of a given task.
MemberSettle(t, ev) ==
    /\ InSeq(t, env.mine)
    /\ env.count < MaxEvents
    /\ SetWorld(Finish(Logged(World, t, ev), t, ev.err, ev.result))
    /\ UNCHANGED webVars

\* cancel() of a given task.
MemberCancel(t) ==
    /\ InSeq(t, env.mine)
    /\ env.count < MaxEvents
    /\ SetWorld(Cancel(Logged(World, t, CancelledOutcome), t))
    /\ UNCHANGED webVars

\* Task.race(tasks)
RaceCall ==
    /\ env.race = Null
    /\ Len(env.mine) >= 2
    /\ LET w1 == Race(World, env.mine)
       IN  SetWorld([w1 EXCEPT !.env.race = [task |-> w1.ret, at |-> Len(env.log)]])
    /\ UNCHANGED webVars

\* cancel() of the race.
RaceCancel ==
    /\ env.race # Null
    /\ env.count < MaxEvents
    /\ SetWorld(Cancel(Logged(World, env.race.task, CancelledOutcome), env.race.task))
    /\ UNCHANGED webVars

RaceNext ==
    \/ MemberStart
    \/ \E t \in 1..MaxRacers, ev \in Outcomes : MemberSettle(t, ev)
    \/ \E t \in 1..MaxRacers : MemberCancel(t)
    \/ RaceCall
    \/ RaceCancel
    \/ Tick

RaceSpec == TaskInit /\ [][RaceNext]_vars


\* The entries of env.log where a given task resolved or rejected (and had
\* not finished before), and those of them from before the race was made.
Finishers ==
    {k \in DOMAIN env.log :
        /\ env.log[k].first
        /\ InSeq(env.log[k].task, env.mine)
        /\ env.log[k].ev.err # Cancelled}
Early == {k \in Finishers : k <= env.race.at}

\* The given task that resolved or rejected first.
FirstFinisher == {k \in Finishers : \A l \in Finishers : k <= l}

\* The given task whose outcome reaches the race first: of the tasks that
\* have resolved or rejected when the race is made, the first in the order
\* given; without such a task, the one that resolves or rejects first.
FirstHeard ==
    IF Early = {} THEN FirstFinisher
    ELSE {k \in Early : \A l \in Early : env.log[k].task <= env.log[l].task}

\* The caller cancelled the race before it had finished.
RaceCancelled ==
    \E k \in DOMAIN env.log : env.log[k].task = env.race.task /\ env.log[k].first

\* The race has the outcome of the task of `winner` (a set of at most one
\* entry of env.log), as soon as the deferred callbacks have run; a race
\* that was cancelled first has finished with 'cancelled'.
RaceFollows(winner) ==
    IF RaceCancelled THEN tasks[env.race.task].finished = CancelledOutcome
    ELSE /\ tasks[env.race.task].finished # Null
                => \E k \in winner : tasks[env.race.task].finished = env.log[k].ev
         /\ (ticks = << >> /\ winner # {}) => tasks[env.race.task].finished # Null

\* When a given task or the race has finished and the deferred callbacks
\* have run, every given task has finished.
OthersCancelled ==
    ( /\ ticks = << >>
      /\ \/ tasks[env.race.task].finished # Null
         \/ \E i \in DOMAIN env.mine : tasks[env.mine[i]].finished # Null )
        => \A i \in DOMAIN env.mine : tasks[env.mine[i]].finished # Null

MaxCleanups == 2  \* calls of finally
MaxFinallyTasks == 2  \* tasks started by this caller

\* Task.start(doSomething), as in TaskStart.
FinallyStart(ev) ==
    /\ Len(tasks) < MaxFinallyTasks
    /\ TaskStart(ev)

\* task.finally(cleanup) of a started task.
TaskFinally(t) ==
    /\ InSeq(t, env.mine)
    /\ Len(env.cleanups) < MaxCleanups
    /\ LET k == Len(env.cleanups) + 1
           w1 == Finally(World, t, Fn("cleanup", k))
       IN  SetWorld([w1 EXCEPT !.env.cleanups =
                                  Append(@, [of |-> t,
                                             late |-> (tasks[t].finished # Null)])])
    /\ UNCHANGED webVars

FinallyNext ==
    \/ \E ev \in Outcomes \cup {Null} : FinallyStart(ev)
    \/ \E t \in 1..MaxFinallyTasks, ev \in Outcomes : TaskSettle(t, ev)
    \/ \E t \in 1..MaxFinallyTasks : TaskCancel(t)
    \/ \E t \in 1..MaxFinallyTasks : TaskFinally(t)
    \/ Tick

FinallySpec == TaskInit /\ [][FinallyNext]_vars

\* The number of calls of the cleanup k.
Runs(k) == Len(SelectSeq(env.cleaned, LAMBDA x : x = k))

\* C24: a cleanup function registered with finally is called at most once,
\* and only when its task has finished; when its task has finished (with a
\* result, an error or 'cancelled', before or after the registration) and
\* the deferred callbacks have run, it has been called once.
C24_CleanupOnce ==
    \A k \in DOMAIN env.cleanups :
        /\ Runs(k) <= 1
        /\ Runs(k) = 1 => tasks[env.cleanups[k].of].finished # Null
        /\ (tasks[env.cleanups[k].of].finished # Null /\ ticks = << >>) => Runs(k) = 1

\* A cancelled task with a cleanup registered before the cancel and another
\* registered after it: each has run once.
C24_Witness ==
    \E k, l \in DOMAIN env.cleanups :
        /\ env.cleanups[k].of = env.cleanups[l].of
        /\ tasks[env.cleanups[k].of].finished = CancelledOutcome
        /\ ~env.cleanups[k].late /\ env.cleanups[l].late
        /\ Runs(k) = 1 /\ Runs(l) = 1

====
